---- MODULE Spec2Model ----
(***************************************************************************)
(* MfNavTracker: src/main.py.                                              *)
(*                                                                         *)
(* A MutualFundTracker is constructed from a portfolio file and the        *)
(* RETURN_THRESHOLD environment variable; monitor_portfolio then runs one  *)
(* evaluation pass: calculate_weighted_price_change walks the holdings,    *)
(* check_investment_opportunity compares the result with the threshold     *)
(* and notify_investment_opportunity hands an alert to                     *)
(* send_telegram_message.                                                  *)
(*                                                                         *)
(* Numbers.  Python floats are modelled exactly, as fixed-point integers:  *)
(*   - a weight is an integer (the inputs below are whole numbers);        *)
(*   - a percentage change and weighted_price_change_sum count units of    *)
(*     1/PctUnit percent;                                                  *)
(*   - a WeightedReturn and the threshold count units of                   *)
(*     1/(PctUnit * Hundred) percent, so that the division by 100 of the   *)
(*     scaling rule is exact.                                              *)
(* The prices below are chosen so that every division is exact.            *)
(***************************************************************************)
EXTENDS Integers, Sequences, FiniteSets

\* ------------------------------------------------------------------------
\* Bounds of the model
\* ------------------------------------------------------------------------

\* Longest portfolio file (data rows) that is explored.
MaxHoldings == 2

\* Most monitor_portfolio invocations on one tracker (SpecRepeat).
MaxPasses == 2

\* ------------------------------------------------------------------------
\* Number representation
\* ------------------------------------------------------------------------

\* Units per percent of price_diff_percentage (tenths of a percent).
PctUnit == 10

\* The literal 100 of lines 125 and 135.
Hundred == 100

\* The literal 2 of the scaling rule, line 134.
ScaleLimit == 2

\* One percent, in units of WeightedReturn.
Percent == PctUnit * Hundred

\* ------------------------------------------------------------------------
\* Inputs: portfolio files, environment, price source, transport
\* ------------------------------------------------------------------------

\* A cell of the weight column is its text, one character per element; a
\* cell of the isin column is a string, "" for an empty cell.
\* The rows that the explored files are made of.
Rows ==
    { [isin |-> "A", weight |-> <<"6", "0", "%">>],
      [isin |-> "B", weight |-> <<"4", "0", "%">>],
      [isin |-> "A", weight |-> <<"2">>],
      [isin |-> "B", weight |-> <<"1", "%">>],
      [isin |-> "B", weight |-> <<"-", "5", "%">>],
      [isin |-> "",  weight |-> <<"1", "%">>],
      [isin |-> "A", weight |-> <<"x">>] }

\* The rows of the files that SpecRepeat explores.
RepeatRows ==
    { [isin |-> "A", weight |-> <<"6", "0", "%">>],
      [isin |-> "B", weight |-> <<"4", "0", "%">>] }

RECURSIVE SeqsUpTo(_, _)
SeqsUpTo(S, n) ==
    IF n = 0 THEN { <<>> }
    ELSE LET shorter == SeqsUpTo(S, n - 1)
         IN  shorter \cup { Append(s, x) : s \in shorter, x \in S }

ColumnSets == { {"isin", "weight"}, {"isin"}, {"weight"}, {"name"} }

\* Files with the required columns and a supported extension, and files
\* that lack a column or have another extension.
Files ==
    { [ext |-> "csv", columns |-> {"isin", "weight"}, rows |-> r] :
        r \in SeqsUpTo(Rows, MaxHoldings) }
    \cup
    { [ext |-> e, columns |-> c, rows |-> r] :
        e \in {"csv", "xlsx", "txt"}, c \in ColumnSets,
        r \in SeqsUpTo(RepeatRows, 1) }

RepeatFiles ==
    { [ext |-> "csv", columns |-> {"isin", "weight"}, rows |-> r] :
        r \in SeqsUpTo(RepeatRows, MaxHoldings) }

\* RETURN_THRESHOLD, in units of WeightedReturn: -2.80, 0.0 and 1.0.
Thresholds == { -2800, 0, 1000 }

\* The environment: RETURN_THRESHOLD may be unset.
Environments ==
    { [set |-> TRUE, value |-> t] : t \in Thresholds }
    \cup { [set |-> FALSE, value |-> 0] }

\* What the price source does for one holding: whether ticker.info has a
\* longName, whether ticker.history raises, and the closing prices that
\* history holds for the last two days (oldest first).
Outcomes ==
    { [info |-> "ok",    history |-> "ok",    closes |-> << >>],
      [info |-> "ok",    history |-> "ok",    closes |-> <<100>>],
      [info |-> "ok",    history |-> "ok",    closes |-> <<100, 102>>],
      [info |-> "ok",    history |-> "ok",    closes |-> <<100, 90>>],
      [info |-> "ok",    history |-> "ok",    closes |-> <<1000, 998>>],
      [info |-> "ok",    history |-> "raise", closes |-> << >>],
      [info |-> "raise", history |-> "ok",    closes |-> <<100, 90>>] }

\* An empty identifier names no security: the lookup raises.
NoSecurity == [info |-> "raise", history |-> "raise", closes |-> << >>]

OutcomesFor(isin) == IF isin = "" THEN { NoSecurity } ELSE Outcomes

\* What the HTTP transport does with one message.
Transports == { "no_credentials", "status_200", "status_other", "exception" }


\* ------------------------------------------------------------------------
\* State
\* ------------------------------------------------------------------------

VARIABLES
    file,           \* the portfolio file given to the constructor
    env,            \* RETURN_THRESHOLD of the process environment
    runs,           \* how often the caller invokes monitor_portfolio
    pc,             \* "new", "failed", "ready", "loop", "calculated",
                    \* "notify", "checked"
    ctorError,      \* the error raised by __init__, "none" if none
    portfolio,      \* self.portfolio
    threshold,      \* self.threshold
    idx,            \* the row the loop of the current pass is at
    weighted_price_change_sum,
    weights_sum,
    outcomes,       \* what the price source did in this pass, per row
    weighted_return,
    result,         \* how check_investment_opportunity ended in this pass:
                    \* "none", "true", "false", "exception"
    message,        \* the value in the last message handed to the notifier
    transport,      \* what the transport did with it, "none" if not called
    passAlerts,     \* calls of send_telegram_message in this pass
    notifierCalls,  \* calls of send_telegram_message since construction
    passes,         \* completed monitor_portfolio invocations
    monitorError    \* monitor_portfolio logged an error in the last pass

vars ==
    << file, env, runs, pc, ctorError, portfolio, threshold, idx,
       weighted_price_change_sum, weights_sum, outcomes, weighted_return,
       result, message, transport, passAlerts, notifierCalls, passes,
       monitorError >>

inputVars == << file, env, runs >>

trackerVars == << portfolio, threshold >>

passVars ==
    << idx, weighted_price_change_sum, weights_sum, outcomes,
       weighted_return, result, message, transport, passAlerts,
       monitorError >>

\* ------------------------------------------------------------------------
\* Portfolio loader: read_portfolio, process_weights
\* ------------------------------------------------------------------------

Digits == {"0", "1", "2", "3", "4", "5", "6", "7", "8", "9"}

DigitValue(c) ==
    CASE c = "0" -> 0 [] c = "1" -> 1 [] c = "2" -> 2 [] c = "3" -> 3
      [] c = "4" -> 4 [] c = "5" -> 5 [] c = "6" -> 6 [] c = "7" -> 7
      [] c = "8" -> 8 [] c = "9" -> 9

\* str.replace('%', '', regex=False): every '%' is removed.
StripPercent(text) == SelectSeq(text, LAMBDA c : c # "%")

RECURSIVE DigitsValue(_)
DigitsValue(text) ==
    IF text = << >> THEN 0
    ELSE DigitsValue(SubSeq(text, 1, Len(text) - 1)) * 10
         + DigitValue(text[Len(text)])

AllDigits(text) ==
    /\ text # << >>
    /\ \A i \in 1..Len(text) : text[i] \in Digits

\* float(text) for the texts of the model: an optional sign and digits;
\* anything else is a ValueError.
ToFloat(text) ==
    IF AllDigits(text)
    THEN [ok |-> TRUE, value |-> DigitsValue(text)]
    ELSE IF text # << >> /\ text[1] = "-" /\ AllDigits(Tail(text))
    THEN [ok |-> TRUE, value |-> 0 - DigitsValue(Tail(text))]
    ELSE [ok |-> FALSE, value |-> 0]

\* process_weights on one cell.
ProcessWeight(cell) == ToFloat(StripPercent(cell))

\* The column check of read_portfolio, with a plausible slip: "or".
HasAnyRequiredColumn(columns) == "isin" \in columns \/ "weight" \in columns

\* The column check of read_portfolio.
HasRequiredColumns(columns) == "isin" \in columns /\ "weight" \in columns

\* read_portfolio: the error it raises ("none" if it returns) and the
\* data frame it returns.
ReadPortfolio(f) ==
    IF f.ext \notin {"csv", "xlsx"}
    THEN [error |-> "unsupported_file", df |-> << >>]
    ELSE IF ~HasRequiredColumns(f.columns)
    THEN [error |-> "missing_column", df |-> << >>]
    ELSE IF "weight" \notin f.columns
    THEN [error |-> "key_error", df |-> << >>]
    ELSE IF \E i \in 1..Len(f.rows) : ~ProcessWeight(f.rows[i].weight).ok
    THEN [error |-> "value_error", df |-> << >>]
    ELSE [error |-> "none",
          df |-> [i \in 1..Len(f.rows) |->
                    [isin |-> f.rows[i].isin,
                     weight |-> ProcessWeight(f.rows[i].weight).value]]]


\* ------------------------------------------------------------------------
\* Return engine: calculate_weighted_price_change
\* ------------------------------------------------------------------------

\* ((current_price - close_price_2d) / close_price_2d) * 100, in units of
\* 1/PctUnit percent.
PriceDiffPercentage(close_price_2d, current_price) ==
    ((current_price - close_price_2d) * Hundred * PctUnit) \div close_price_2d

\* One iteration of the loop on `row` when the price source behaves as `o`:
\* "error" when a statement of the try block raises, "skipped" when the
\* history is too short, "added" with the amounts added to the two sums.
ProcessRow(row, o) ==
    IF o.info = "raise" \/ o.history = "raise"
    THEN [status |-> "error", change |-> 0, weight |-> 0]
    ELSE IF Len(o.closes) < 2
    THEN [status |-> "skipped", change |-> 0, weight |-> 0]
    ELSE LET close_price_2d == o.closes[Len(o.closes) - 1]
             current_price == o.closes[Len(o.closes)]
         IN  [status |-> "added",
              change |-> PriceDiffPercentage(close_price_2d, current_price)
                         * row.weight,
              weight |-> row.weight]

\* A handler that lets the KeyError of ticker.info['longName'] through.
ExceptionCaughtUnlessKeyError(o) == o.info # "raise"

\* except Exception: every error raised in the try block is caught.
ExceptionCaught(o) == TRUE

\* The amounts of a holding collected per identifier: only the first row
\* of an identifier counts.
ContributionPerIdentifier(pf, outs, i) ==
    IF \E j \in 1..(i - 1) : pf[j].isin = pf[i].isin
    THEN [change |-> 0, weight |-> 0]
    ELSE [change |-> ProcessRow(pf[i], outs[i]).change,
          weight |-> ProcessRow(pf[i], outs[i]).weight]

\* What row i of the data frame adds to weighted_price_change_sum and to
\* weights_sum.
Contribution(pf, outs, i) ==
    [change |-> ProcessRow(pf[i], outs[i]).change,
     weight |-> ProcessRow(pf[i], outs[i]).weight]

\* A sum in units of 1/PctUnit percent, as a WeightedReturn.
ReturnUnits(x) == x * (Percent \div PctUnit)

\* The scaling rule with the limit included.
ScaledReturnFromLimit(sum, weights) ==
    IF weights >= ScaleLimit THEN ReturnUnits(sum) \div Hundred
    ELSE ReturnUnits(sum)

\* The scaling rule that ends calculate_weighted_price_change.
ScaledReturn(sum, weights) ==
    IF weights > ScaleLimit THEN ReturnUnits(sum) \div Hundred
    ELSE ReturnUnits(sum)

\* calculate_weighted_price_change as a function of the data frame and of
\* what the price source does for each row.
RECURSIVE SumsUpTo(_, _, _)
SumsUpTo(pf, outs, n) ==
    IF n = 0 THEN [change |-> 0, weight |-> 0]
    ELSE LET before == SumsUpTo(pf, outs, n - 1)
             c == Contribution(pf, outs, n)
         IN  [change |-> before.change + c.change,
              weight |-> before.weight + c.weight]

CalculateWeightedPriceChange(pf, outs) ==
    LET sums == SumsUpTo(pf, outs, Len(pf))
    IN  ScaledReturn(sums.change, sums.weight)

\* ------------------------------------------------------------------------
\* Threshold evaluator and notifier
\* ------------------------------------------------------------------------

\* The comparison with equality included.
TriggersAtOrBelow(value, limit) == value <= limit

\* The comparison of a tracker that alerts once and then stays silent.
TriggersOnce(value, limit) == value < limit /\ notifierCalls = 0

\* weighted_return < self.threshold
Triggers(value, limit) == value < limit

\* {weighted_return:.2f}: the value in hundredths of a percent, rounded to
\* the nearest, a tie to the even neighbour.
Format2f(x) ==
    LET steps  == Percent \div Hundred
        mag    == IF x < 0 THEN 0 - x ELSE x
        q      == mag \div steps
        r      == mag % steps
        up     == 2 * r > steps \/ (2 * r = steps /\ q % 2 = 1)
        cents  == IF up THEN q + 1 ELSE q
    IN  IF x < 0 THEN 0 - cents ELSE cents

\* send_telegram_message without its try block.
SendTelegramMessageUnguarded(t) ==
    IF t = "exception" THEN "raised" ELSE "returned"

\* send_telegram_message: how the call ends for each transport outcome:
\* the early return without credentials, the two branches on the status
\* code, and the except clause around requests.post.
SendTelegramMessage(t) ==
    IF t = "no_credentials" THEN "returned"
    ELSE IF t = "exception" THEN "returned"
    ELSE IF t = "status_200" THEN "returned"
    ELSE "returned"

\* is_trading_time
IsTradingTime == TRUE


\* ------------------------------------------------------------------------
\* Initial states
\* ------------------------------------------------------------------------

InitWith(files, environments, count) ==
    /\ file \in files
    /\ env \in environments
    /\ runs = count
    /\ pc = "new"
    /\ ctorError = "none"
    /\ portfolio = << >>
    /\ threshold = 0
    /\ idx = 1
    /\ weighted_price_change_sum = 0
    /\ weights_sum = 0
    /\ outcomes = << >>
    /\ weighted_return = 0
    /\ result = "none"
    /\ message = 0
    /\ transport = "none"
    /\ passAlerts = 0
    /\ notifierCalls = 0
    /\ passes = 0
    /\ monitorError = FALSE

\* The script: one tracker, one monitor_portfolio call.
Init == InitWith(Files, Environments, 1)

\* A caller that keeps the tracker and calls monitor_portfolio repeatedly.
InitRepeat ==
    InitWith(RepeatFiles, { e \in Environments : e.set }, MaxPasses)

\* ------------------------------------------------------------------------
\* Actions
\* ------------------------------------------------------------------------

\* MutualFundTracker.__init__: float(os.environ.get('RETURN_THRESHOLD')),
\* then read_portfolio.
Construct ==
    /\ pc = "new"
    /\ IF ~env.set
       THEN /\ pc' = "failed"
            /\ ctorError' = "type_error"
            /\ UNCHANGED trackerVars
       ELSE LET loaded == ReadPortfolio(file)
            IN  IF loaded.error # "none"
                THEN /\ pc' = "failed"
                     /\ ctorError' = loaded.error
                     /\ UNCHANGED trackerVars
                ELSE /\ pc' = "ready"
                     /\ ctorError' = "none"
                     /\ portfolio' = loaded.df
                     /\ threshold' = env.value
    /\ UNCHANGED << inputVars, passVars, notifierCalls, passes >>

\* monitor_portfolio is called: is_trading_time, then
\* check_investment_opportunity enters calculate_weighted_price_change.
StartPass ==
    /\ pc = "ready"
    /\ passes < runs
    /\ idx' = 1
    /\ weighted_price_change_sum' = 0
    /\ weights_sum' = 0
    /\ outcomes' = << >>
    /\ weighted_return' = 0
    /\ result' = "none"
    /\ transport' = "none"
    /\ passAlerts' = 0
    /\ monitorError' = FALSE
    /\ IF IsTradingTime
       THEN pc' = "loop" /\ passes' = passes
       ELSE pc' = "ready" /\ passes' = passes + 1
    /\ UNCHANGED << inputVars, trackerVars, ctorError, message,
                    notifierCalls >>

\* One iteration of the loop over portfolio_data.iterrows().
ProcessHolding ==
    /\ pc = "loop"
    /\ idx <= Len(portfolio)
    /\ \E o \in OutcomesFor(portfolio[idx].isin) :
         LET outs == Append(outcomes, o)
             c == Contribution(portfolio, outs, idx)
         IN  IF "isin" \notin file.columns
             THEN \* row['isin'] raises outside the try block
                  /\ result' = "exception"
                  /\ pc' = "checked"
                  /\ UNCHANGED << idx, weighted_price_change_sum,
                                  weights_sum, outcomes >>
             ELSE IF ProcessRow(portfolio[idx], o).status = "error"
                     /\ ~ExceptionCaught(o)
             THEN /\ result' = "exception"
                  /\ pc' = "checked"
                  /\ outcomes' = outs
                  /\ UNCHANGED << idx, weighted_price_change_sum,
                                  weights_sum >>
             ELSE /\ weighted_price_change_sum' =
                        weighted_price_change_sum + c.change
                  /\ weights_sum' = weights_sum + c.weight
                  /\ outcomes' = outs
                  /\ idx' = idx + 1
                  /\ pc' = "loop"
                  /\ UNCHANGED result
    /\ UNCHANGED << inputVars, trackerVars, ctorError, weighted_return,
                    message, transport, passAlerts, notifierCalls, passes,
                    monitorError >>

\* The scaling rule and the return indented into the loop body: the
\* function returns once the first row has been processed.
ReturnWeightedInsideLoop ==
    /\ pc = "loop"
    /\ idx > 1 \/ idx > Len(portfolio)
    /\ weighted_return' = ScaledReturn(weighted_price_change_sum, weights_sum)
    /\ pc' = "calculated"
    /\ UNCHANGED << inputVars, trackerVars, ctorError, idx,
                    weighted_price_change_sum, weights_sum, outcomes, result,
                    message, transport, passAlerts, notifierCalls, passes,
                    monitorError >>

\* The loop is over: the scaling rule, and the return to
\* check_investment_opportunity.
ReturnWeighted ==
    /\ pc = "loop"
    /\ idx > Len(portfolio)
    /\ weighted_return' = ScaledReturn(weighted_price_change_sum, weights_sum)
    /\ pc' = "calculated"
    /\ UNCHANGED << inputVars, trackerVars, ctorError, idx,
                    weighted_price_change_sum, weights_sum, outcomes, result,
                    message, transport, passAlerts, notifierCalls, passes,
                    monitorError >>

\* check_investment_opportunity compares the return with the threshold.
Evaluate ==
    /\ pc = "calculated"
    /\ IF Triggers(weighted_return, threshold)
       THEN pc' = "notify" /\ UNCHANGED result
       ELSE pc' = "checked" /\ result' = "false"
    /\ UNCHANGED << inputVars, trackerVars, ctorError, idx,
                    weighted_price_change_sum, weights_sum, outcomes,
                    weighted_return, message, transport, passAlerts,
                    notifierCalls, passes, monitorError >>

\* notify_investment_opportunity builds the message and calls
\* send_telegram_message; check_investment_opportunity then returns True.
Notify ==
    /\ pc = "notify"
    /\ \E t \in Transports :
         /\ transport' = t
         /\ result' = IF SendTelegramMessage(t) = "returned"
                      THEN "true" ELSE "exception"
    /\ message' = Format2f(weighted_return)
    /\ passAlerts' = passAlerts + 1
    /\ notifierCalls' = notifierCalls + 1
    /\ pc' = "checked"
    /\ UNCHANGED << inputVars, trackerVars, ctorError, idx,
                    weighted_price_change_sum, weights_sum, outcomes,
                    weighted_return, passes, monitorError >>

\* monitor_portfolio returns: an exception of the pass is logged there.
MonitorReturn ==
    /\ pc = "checked"
    /\ monitorError' = (result = "exception")
    /\ passes' = passes + 1
    /\ pc' = "ready"
    /\ UNCHANGED << inputVars, trackerVars, ctorError, idx,
                    weighted_price_change_sum, weights_sum, outcomes,
                    weighted_return, result, message, transport, passAlerts,
                    notifierCalls >>

Next ==
    \/ Construct
    \/ StartPass
    \/ ProcessHolding
    \/ ReturnWeighted
    \/ Evaluate
    \/ Notify
    \/ MonitorReturn

Spec == Init /\ [][Next]_vars

SpecRepeat == InitRepeat /\ [][Next]_vars


\* ------------------------------------------------------------------------
\* Vocabulary of the properties
\* ------------------------------------------------------------------------

RECURSIVE SumOf(_, _)
SumOf(f, S) ==
    IF S = {} THEN 0
    ELSE LET x == CHOOSE y \in S : TRUE
         IN  f[x] + SumOf(f, S \ {x})

\* check_investment_opportunity of the current pass has ended.
PassDecided == pc = "checked" \/ (pc = "ready" /\ passes > 0)

\* The price source holds two closing prices for the holding.
TwoClosesAvailable(o) == o.history = "ok" /\ Len(o.closes) >= 2

\* The holding was successfully observed: nothing raised and the history
\* that came back has two closing prices.
Observed(o) == o.info = "ok" /\ TwoClosesAvailable(o)

\* percentage_change_i * weight_i of row i of this pass.
WeightedChange(i) ==
    PriceDiffPercentage(outcomes[i].closes[1], outcomes[i].closes[2])
    * portfolio[i].weight

ObservedRows == { i \in 1..Len(outcomes) : Observed(outcomes[i]) }

\* raw_weighted_sum and the sum of the weights over the observed holdings.
RawWeightedSum == SumOf([i \in ObservedRows |-> WeightedChange(i)], ObservedRows)

ObservedWeight == SumOf([i \in ObservedRows |-> portfolio[i].weight], ObservedRows)

\* x percent-units, unscaled and divided by 100, as a WeightedReturn.
Unscaled(x) == (x * Percent) \div PctUnit

DividedBy100(x) == (x * Percent) \div (PctUnit * 100)

\* ------------------------------------------------------------------------
\* C1
\* ------------------------------------------------------------------------

\* C1: the threshold decision is strict: a pass returns True and hands an
\* alert to the notifier if and only if its WeightedReturn is below the
\* threshold; at equality it returns False and the notifier is not called.
C1_StrictThreshold ==
    PassDecided =>
        /\ (result = "true") <=> (weighted_return < threshold)
        /\ (passAlerts = 1) <=> (weighted_return < threshold)
        /\ (weighted_return >= threshold) =>
               (result = "false" /\ passAlerts = 0)

\* A pass over observed holdings whose return equals the threshold.
C1_Witness ==
    /\ pc = "checked"
    /\ ObservedRows # {}
    /\ weighted_return = threshold
    /\ weighted_return # 0
    /\ result = "false"

\* ------------------------------------------------------------------------
\* C2
\* ------------------------------------------------------------------------

\* C2: the value that calculate_weighted_price_change returns is
\* raw_weighted_sum / 100 if the weights of the observed holdings sum to
\* more than 2, and raw_weighted_sum otherwise (a sum of exactly 2
\* included); weights 60 and 40 with changes +2% and -10% give -2.80.
C2_ScalingRule ==
    pc = "calculated" =>
        /\ ObservedWeight > 2 => weighted_return = DividedBy100(RawWeightedSum)
        /\ ObservedWeight <= 2 => weighted_return = Unscaled(RawWeightedSum)
        /\ ( /\ Len(portfolio) = 2
             /\ portfolio[1].weight = 60
             /\ portfolio[2].weight = 40
             /\ outcomes[1].info = "ok" /\ outcomes[1].closes = <<100, 102>>
             /\ outcomes[2].info = "ok" /\ outcomes[2].closes = <<100, 90>> )
           => weighted_return = -2800

\* The 60/40 portfolio with +2% and -10%: -2.80.
C2_Witness ==
    /\ pc = "calculated"
    /\ Len(portfolio) = 2
    /\ portfolio[1].weight = 60
    /\ portfolio[2].weight = 40
    /\ outcomes[1] = [info |-> "ok", history |-> "ok", closes |-> <<100, 102>>]
    /\ outcomes[2] = [info |-> "ok", history |-> "ok", closes |-> <<100, 90>>]
    /\ weights_sum = 100
    /\ weighted_return = -2800


\* ------------------------------------------------------------------------
\* C3
\* ------------------------------------------------------------------------

\* C3: per-holding failures are recoverable: a holding whose fetch raises,
\* or whose history is empty or has fewer than two closing prices, adds
\* zero to both sums; a holding for which two closing prices are available
\* adds percentage_change * weight to weighted_price_change_sum and its
\* weight to weights_sum; every holding is processed and the batch never
\* aborts.
C3_PerHoldingRecovery ==
    LET rows == 1..Len(outcomes)
        available == { i \in rows : TwoClosesAvailable(outcomes[i]) }
    IN  /\ pc \in {"loop", "calculated"} =>
              /\ weighted_price_change_sum =
                     SumOf([i \in available |-> WeightedChange(i)], available)
              /\ weights_sum =
                     SumOf([i \in available |-> portfolio[i].weight], available)
        /\ pc = "calculated" => Len(outcomes) = Len(portfolio)
        /\ result # "exception"

\* ------------------------------------------------------------------------
\* C4
\* ------------------------------------------------------------------------

\* The sum of all weights of the portfolio: the weights that are observed
\* when no holding fails.
TotalWeight ==
    SumOf([i \in 1..Len(portfolio) |-> portfolio[i].weight], 1..Len(portfolio))

\* C4: a failure in one holding does not affect the others: what each
\* observed holding contributes to the returned WeightedReturn is what it
\* contributes when no holding fails, so the return is the sum of the
\* observed holdings' weighted changes on the scale of the whole
\* portfolio.
C4_FailureIndependence ==
    pc = "calculated" =>
        weighted_return =
            IF TotalWeight > 2 THEN DividedBy100(RawWeightedSum)
            ELSE Unscaled(RawWeightedSum)

\* ------------------------------------------------------------------------
\* C5
\* ------------------------------------------------------------------------

\* Every holding of the portfolio was tried and none was observed (an
\* empty portfolio included).
NothingObserved ==
    /\ Len(outcomes) = Len(portfolio)
    /\ ObservedRows = {}

\* C5 as stated: with nothing observed the return is 0.0 and the pass does
\* not trigger, whatever the threshold.
C5_DegenerateNeverTriggers ==
    (PassDecided /\ NothingObserved) =>
        /\ weighted_return = 0
        /\ result = "false"
        /\ passAlerts = 0

\* C5 (amended): with nothing observed calculate_weighted_price_change
\* returns 0.0 without raising; the pass does not trigger for a threshold
\* that is not above 0, and triggers for a threshold above 0.
C5_DegenerateReturnsZero ==
    (PassDecided /\ NothingObserved) =>
        /\ weighted_return = 0
        /\ result # "exception"
        /\ threshold <= 0 => (result = "false" /\ passAlerts = 0)
        /\ threshold > 0 => (result = "true" /\ passAlerts = 1)

\* A portfolio whose holdings all failed, decided against threshold 0.
C5_Witness ==
    /\ pc = "checked"
    /\ Len(portfolio) = 2
    /\ NothingObserved
    /\ outcomes[1].info = "raise"
    /\ Len(outcomes[2].closes) = 1
    /\ threshold = 0
    /\ weighted_return = 0
    /\ result = "false"


\* ------------------------------------------------------------------------
\* C6
\* ------------------------------------------------------------------------

\* C6: notification is best-effort: once a pass has handed its alert to
\* send_telegram_message, whatever the transport did (no credentials, a
\* status other than 200, an exception of the HTTP call),
\* check_investment_opportunity returns True and monitor_portfolio
\* completes without an error.
C6_BestEffortNotification ==
    (PassDecided /\ passAlerts > 0) =>
        /\ transport \in Transports
        /\ result = "true"
        /\ pc = "ready" => ~monitorError

\* A completed pass whose HTTP call raised.
C6_Witness ==
    /\ pc = "ready"
    /\ passes = 1
    /\ passAlerts = 1
    /\ transport = "exception"
    /\ result = "true"
    /\ ~monitorError

\* ------------------------------------------------------------------------
\* C7
\* ------------------------------------------------------------------------

\* The file lacks a required column or has an unsupported format.
FatalInput(f) ==
    \/ f.ext \notin {"csv", "xlsx"}
    \/ "isin" \notin f.columns
    \/ "weight" \notin f.columns

\* C7: fatal input errors abort the run: for such a file the constructor
\* raises (read_portfolio's error, when the constructor gets as far as
\* read_portfolio), and in that run no price is fetched, no threshold
\* decision is made and the notifier is never called.
C7_FatalInputAborts ==
    (FatalInput(file) /\ pc # "new") =>
        /\ pc = "failed"
        /\ env.set => ctorError \in {"unsupported_file", "missing_column"}
        /\ portfolio = << >>
        /\ outcomes = << >>
        /\ result = "none"
        /\ notifierCalls = 0
        /\ passes = 0

\* A csv file with rows but without the weight column was refused.
C7_Witness ==
    /\ pc = "failed"
    /\ file.ext = "csv"
    /\ file.columns = {"isin"}
    /\ Len(file.rows) = 1
    /\ ctorError = "missing_column"
    /\ outcomes = << >>
    /\ notifierCalls = 0


\* ------------------------------------------------------------------------
\* C8
\* ------------------------------------------------------------------------

\* C8: passes are stateless and alerts are not de-duplicated: in every
\* monitor_portfolio invocation the decision is the one that this pass's
\* portfolio, observed prices and threshold give, whatever earlier passes
\* did; a pass whose WeightedReturn is below the threshold calls the
\* notifier again, exactly once; and the portfolio and the threshold stay
\* what the constructor made them.
C8_StatelessPasses ==
    /\ pc \notin {"new", "failed"} =>
           /\ portfolio = ReadPortfolio(file).df
           /\ threshold = env.value
    /\ PassDecided =>
           LET below ==
                   CalculateWeightedPriceChange(portfolio, outcomes) < threshold
           IN  /\ (result = "true") <=> below
               /\ passAlerts = (IF below THEN 1 ELSE 0)
    /\ notifierCalls <= passes + 1
    /\ (pc = "ready" /\ passAlerts = 1) => notifierCalls >= 1

\* A second pass has alerted right after a first pass that alerted.
C8_Witness ==
    /\ pc = "ready"
    /\ passes = 2
    /\ notifierCalls = 2
    /\ passAlerts = 1
    /\ result = "true"

\* ------------------------------------------------------------------------
\* C9
\* ------------------------------------------------------------------------

\* C9: every holding of a loaded portfolio has a non-empty identifier and
\* a non-negative weight.
C9_HoldingInvariant ==
    pc \notin {"new", "failed"} =>
        \A i \in 1..Len(portfolio) :
            /\ portfolio[i].isin # ""
            /\ portfolio[i].weight >= 0

\* ------------------------------------------------------------------------
\* C10
\* ------------------------------------------------------------------------

Permutations(n) ==
    { f \in [1..n -> 1..n] : \A i, j \in 1..n : i # j => f[i] # f[j] }

BeforeNotify == pc \in {"loop", "calculated", "notify"}

\* The notifier was called in this pass only with every holding processed
\* and weighted_return the final scaled return of the whole pass, which is
\* below the threshold.
AlertFromFinalReturn ==
    /\ passAlerts <= 1
    /\ BeforeNotify => passAlerts = 0
    /\ passAlerts = 1 =>
           /\ Len(outcomes) = Len(portfolio)
           /\ idx = Len(portfolio) + 1
           /\ weighted_price_change_sum = RawWeightedSum
           /\ weighted_return =
                  IF ObservedWeight > 2 THEN DividedBy100(RawWeightedSum)
                  ELSE Unscaled(RawWeightedSum)
           /\ weighted_return < threshold

\* C11 as stated: the notifier is called at most once per pass, only after
\* every holding has been processed and the final scaled WeightedReturn
\* has been computed, and the value in the alert message is exactly the
\* value that was compared with the threshold.
C11_AlertCarriesComparedValue ==
    /\ AlertFromFinalReturn
    /\ passAlerts = 1 => message * (Percent \div 100) = weighted_return

\* C11 (amended): as stated, except that the value in the alert message is
\* the compared value rounded to two decimal places: it differs from the
\* compared value by at most half a hundredth of a percent.
C11_AlertCarriesRoundedValue ==
    /\ AlertFromFinalReturn
    /\ passAlerts = 1 =>
           LET shown == message * (Percent \div 100)
               diff == IF shown >= weighted_return
                       THEN shown - weighted_return
                       ELSE weighted_return - shown
           IN  2 * diff <= Percent \div 100

\* An alert sent after both holdings of a portfolio were observed, whose
\* message shows the compared value rounded.
C11_Witness ==
    /\ pc = "checked"
    /\ passAlerts = 1
    /\ Len(portfolio) = 2
    /\ ObservedRows = {1, 2}
    /\ weighted_return < threshold
    /\ message * (Percent \div 100) # weighted_return
    /\ result = "true"

====
